---- MODULE Spec2Model ----
(***************************************************************************)
(* cppsage (src/src/main.rs): the install, compile and run commands.       *)
(*                                                                         *)
(* Texts are sequences of tokens.  A token is one character ("a", "/",     *)
(* "#", " ", "\n"), one byte that is not valid UTF-8 (INVALID), one of     *)
(* the two marker strings, or one literal fragment that the code itself    *)
(* emits ("find_package(", ...).  The markers can be atomic tokens         *)
(* because an occurrence of a marker in a text is never split: both start  *)
(* with '#', which occurs nowhere else in either marker, so occurrences    *)
(* cannot overlap, and no literal fragment emitted next to inserted text   *)
(* contains a piece of a marker.                                           *)
(*                                                                         *)
(* External processes (conan, cmake, the built program) are the            *)
(* environment: each command draws their outcomes with \E.  The model      *)
(* assumes the file system itself does not fail (a write or a remove of    *)
(* an existing file succeeds) and that the external processes leave        *)
(* conanfile.txt, requirements.txt and CMakeLists.txt alone.               *)
(***************************************************************************)
EXTENDS Integers, Sequences, FiniteSets, TLC

VARIABLES
    requirements,   \* packages/requirements.txt: NoFile or its bytes
    cmakeLists,     \* <project>/CMakeLists.txt: NoFile or its text
    conanfile,      \* conanfile.txt: NoFile or its text
    buildDir,       \* the path "build": "absent", "dir" or "file"
    exe,            \* whether a file exists at the computed binary path
    cwdName,        \* final component of the current directory, or NoName
    windows,        \* cfg!(target_os = "windows") of this build
    invocations,    \* number of commands run so far
    command,        \* the last command: "none", "install", "compile", "run"
    result,         \* how it ended: "none", "Ok", "Err", "Panic"
    error,          \* the Err it returned, or NoError
    procLog,        \* the processes it invoked, in order
    written,        \* the files it wrote
    dependencies,   \* the declaration list install parsed
    cmakeBefore     \* cmakeLists as the last command found it

vars == <<requirements, cmakeLists, conanfile, buildDir, exe, cwdName, windows,
          invocations, command, result, error, procLog, written, dependencies,
          cmakeBefore>>

-----------------------------------------------------------------------------
(* Bounds *)

MaxReqLen == 4        \* bytes of a requirements file
MaxCMakeLen == 4      \* tokens of a CMakeLists.txt
MaxInvocations == 2   \* commands per behaviour
MaxNameLen == 1       \* characters of the directory name

-----------------------------------------------------------------------------
(* Values *)

\* Both are texts of one token that no file or name holds.
NoFile == <<"<no file>">>
NoName == <<"<no name>">>
NoError == [kind |-> "none", msg |-> <<>>]

INVALID == "0xFF"         \* a byte that is not valid UTF-8
REPLACEMENT == "U+FFFD"   \* what from_utf8_lossy puts in its place

start_marker == "# cppsage:dependencies_start"
end_marker == "# cppsage:dependencies_end"

Whitespace == {" ", "\t", "\r", "\n"}

RECURSIVE SeqsUpTo(_, _)
SeqsUpTo(S, n) ==
    IF n = 0 THEN {<<>>}
    ELSE LET shorter == SeqsUpTo(S, n - 1)
         IN  shorter \cup {Append(s, c) : s \in {t \in shorter : Len(t) = n - 1}, c \in S}

RECURSIVE Concat(_)
Concat(ss) == IF ss = <<>> THEN <<>> ELSE Head(ss) \o Concat(Tail(ss))

\* str::find of a marker: the index of its first occurrence, 0 for None.
Find(text, tok) ==
    IF \E i \in 1..Len(text) : text[i] = tok
    THEN CHOOSE i \in 1..Len(text) : text[i] = tok /\ \A j \in 1..(i - 1) : text[j] # tok
    ELSE 0

\* String::from_utf8_lossy: every invalid byte becomes U+FFFD.
from_utf8_lossy(bytes) ==
    [i \in 1..Len(bytes) |-> IF bytes[i] = INVALID THEN REPLACEMENT ELSE bytes[i]]

io_error(kind, msg) == [kind |-> kind, msg |-> msg]

\* The error of a failed system call; its text is the platform's.
os_error(kind) == [kind |-> kind, msg |-> <<"os error">>]

-----------------------------------------------------------------------------
(* External processes: Command::output() *)

\* Captured stderr bytes: nothing, text, text after a byte that is not
\* valid UTF-8.  The code passes them through from_utf8_lossy only.
StderrSamples == {<<>>, <<"e">>, <<INVALID, "e">>}

\* Err(_) when the program could not be launched, else Ok(Output).  What a
\* successful process wrote to stderr is at most printed.
ProcOutcomes ==
    {[spawned |-> FALSE, success |-> FALSE, stderr |-> <<>>]}
    \cup {[spawned |-> TRUE, success |-> FALSE, stderr |-> e] : e \in StderrSamples}
    \cup {[spawned |-> TRUE, success |-> TRUE, stderr |-> <<"e">>]}

\* Stands for the outcome of a process the environment is never asked for.
NotAsked == [spawned |-> FALSE, success |-> FALSE, stderr |-> <<"not asked">>]

\* The outcomes of the process that follows one that ended as o: the
\* environment answers only once the earlier process has succeeded.
OutcomesAfter(o) == IF o.spawned /\ o.success THEN ProcOutcomes ELSE {NotAsked}

invoked(prog, o) ==
    [prog |-> prog,
     status |-> IF ~o.spawned THEN "spawn_error"
                ELSE IF o.success THEN "success" ELSE "failure",
     stderr |-> o.stderr]

-----------------------------------------------------------------------------
(* install: reading packages/requirements.txt *)

\* One item of BufRead::lines(): Err for a line that is not valid UTF-8,
\* else the line without its "\n" and without one "\r" before it.
read_line(raw) ==
    IF \E i \in 1..Len(raw) : raw[i] = INVALID
    THEN [ok |-> FALSE, line |-> <<>>]
    ELSE [ok |-> TRUE,
          line |-> IF raw # <<>> /\ raw[Len(raw)] = "\r"
                   THEN SubSeq(raw, 1, Len(raw) - 1) ELSE raw]

RECURSIVE lines(_)
lines(bytes) ==
    IF bytes = <<>> THEN <<>>
    ELSE LET nl == Find(bytes, "\n")
         IN  IF nl = 0 THEN <<read_line(bytes)>>
             ELSE <<read_line(SubSeq(bytes, 1, nl - 1))>>
                  \o lines(SubSeq(bytes, nl + 1, Len(bytes)))

RECURSIVE trim_start(_)
trim_start(s) ==
    IF s # <<>> /\ Head(s) \in Whitespace THEN trim_start(Tail(s)) ELSE s

RECURSIVE trim_end(_)
trim_end(s) ==
    IF s # <<>> /\ s[Len(s)] \in Whitespace
    THEN trim_end(SubSeq(s, 1, Len(s) - 1)) ELSE s

trim(s) == trim_end(trim_start(s))

\* line.starts_with('#'); both markers begin with '#'.
starts_with_hash(line) ==
    line # <<>> /\ Head(line) \in {"#", start_marker, end_marker}

\* is_declaration without the comment test.
is_declaration_keeps_comments(line) == line # <<>>

is_declaration(line) == line # <<>> /\ ~starts_with_hash(line)

result_ok(r) == r.ok

parse_requirements(bytes) ==
    LET read == SelectSeq(lines(bytes), result_ok)
        trimmed == [i \in 1..Len(read) |-> trim(read[i].line)]
    IN  SelectSeq(trimmed, is_declaration)

\* no_dependencies that never returns early.
no_dependencies_never(deps) == FALSE

no_dependencies(deps) == deps = <<>>

-----------------------------------------------------------------------------
(* install: conanfile.txt and the dependency section of CMakeLists.txt *)

conanfile_content(deps) ==
    <<"[requires]\n">>
    \o Concat([i \in 1..Len(deps) |-> deps[i] \o <<"\n">>])
    \o <<"\n[generators]\n", "CMakeDeps\n", "CMakeToolchain\n">>

\* conan_failed that ignores the exit status.
conan_failed_never(o) == FALSE

conan_failed(o) == ~o.success

\* dep.split('/').next().unwrap()
dep_name(dep) ==
    LET slash == Find(dep, "/")
    IN  IF slash = 0 THEN dep ELSE SubSeq(dep, 1, slash - 1)

new_deps(deps, project_name) ==
    Concat([i \in 1..Len(deps) |->
        LET n == dep_name(deps[i])
        IN  <<"find_package(">> \o n \o <<")\n">>
            \o <<"target_link_libraries(">> \o project_name \o <<" PRIVATE ">>
            \o n \o <<"::">> \o n \o <<")\n">>])

\* markers_found that tests the start marker only.
markers_found_start_only(start, end) == start # 0

markers_found(start, end) == start # 0 /\ end # 0

\* marker_range that forgets the length of the start marker.
marker_range_from_start(start, end) == [from |-> start, to |-> end]

\* The range start + start_marker.len()..end, as first and one-past-last
\* token index; the start marker is one token.
marker_range(start, end) == [from |-> start + 1, to |-> end]

\* String::replace_range(from..to, with); panics when from > to.
replace_range(text, range, with) ==
    IF range.from > range.to THEN [panicked |-> TRUE, text |-> text]
    ELSE [panicked |-> FALSE,
          text |-> SubSeq(text, 1, range.from - 1) \o with
                   \o SubSeq(text, range.to, Len(text))]

\* Lines 211-228: what becomes of the contents read from CMakeLists.txt.
patch_dependencies(cmake_content, deps, project_name) ==
    LET start == Find(cmake_content, start_marker)
        end == Find(cmake_content, end_marker)
    IN  IF markers_found(start, end)
        THEN LET r == replace_range(cmake_content, marker_range(start, end),
                          <<"\n">> \o new_deps(deps, project_name) \o <<"\n">>)
             IN  IF r.panicked
                 THEN [outcome |-> "Panic", text |-> cmake_content]
                 ELSE [outcome |-> "Ok", text |-> r.text]
        ELSE [outcome |-> "Err", text |-> cmake_content]

returned(res, err, conan, cmake, log, wrote, deps) ==
    [result |-> res, error |-> err, conanfile |-> conan, cmakeLists |-> cmake,
     procLog |-> log, written |-> wrote, dependencies |-> deps]

install_dependencies(req, conan_before, cmake, name, conan) ==
    IF req = NoFile
    THEN returned("Err",
             io_error("NotFound", <<"packages/requirements.txt not found. Are you in the project root?">>),
             conan_before, cmake, <<>>, {}, <<>>)
    ELSE
    LET deps == parse_requirements(req)
        log == <<invoked("conan", conan)>>
    IN
    IF no_dependencies(deps)
    THEN returned("Ok", NoError, conan_before, cmake, <<>>, {}, deps)
    ELSE IF ~conan.spawned
    THEN returned("Err", os_error("NotFound"), conanfile_content(deps), cmake,
                  log, {"conanfile.txt"}, deps)
    ELSE IF conan_failed(conan)
    THEN returned("Err",
             io_error("Other", <<"Conan install failed:\n">> \o from_utf8_lossy(conan.stderr)),
             NoFile, cmake, log, {"conanfile.txt"}, deps)
    ELSE IF name = NoName
    THEN returned("Panic", NoError, NoFile, cmake, log, {"conanfile.txt"}, deps)
    ELSE IF cmake = NoFile
    THEN returned("Err", os_error("NotFound"), NoFile, cmake, log,
                  {"conanfile.txt"}, deps)
    ELSE
    LET p == patch_dependencies(cmake, deps, name)
    IN  CASE p.outcome = "Ok" ->
                returned("Ok", NoError, NoFile, p.text, log,
                         {"conanfile.txt", "CMakeLists.txt"}, deps)
          [] p.outcome = "Err" ->
                returned("Err",
                    io_error("Other", <<"Could not find dependency markers in CMakeLists.txt">>),
                    NoFile, cmake, log, {"conanfile.txt"}, deps)
          [] OTHER ->
                returned("Panic", NoError, NoFile, cmake, log, {"conanfile.txt"}, deps)

Install ==
    /\ invocations < MaxInvocations
    /\ \E conan \in ProcOutcomes :
         LET r == install_dependencies(requirements, conanfile, cmakeLists, cwdName, conan)
         IN  /\ command' = "install"
             /\ result' = r.result
             /\ error' = r.error
             /\ conanfile' = r.conanfile
             /\ cmakeLists' = r.cmakeLists
             /\ procLog' = r.procLog
             /\ written' = r.written
             /\ dependencies' = r.dependencies
    /\ cmakeBefore' = cmakeLists
    /\ invocations' = invocations + 1
    /\ UNCHANGED <<requirements, buildDir, exe, cwdName, windows>>

-----------------------------------------------------------------------------
(* compile *)

\* configure_failed that ignores the exit status.
configure_failed_never(o) == FALSE

configure_failed(o) == ~o.success

build_failed(o) == ~o.success

compiled(res, err, dir, bin, log) ==
    [result |-> res, error |-> err, buildDir |-> dir, exe |-> bin, procLog |-> log]

\* configure and build are the outcomes of the two cmake processes, should
\* they be invoked; exe_after is whether the binary exists once the build
\* process has run.
compile_project(dir, bin, configure, build, exe_after) ==
    IF dir = "file"
    THEN compiled("Err", os_error("AlreadyExists"), dir, bin, <<>>)
    ELSE
    LET log1 == <<invoked("cmake -S . -B build", configure)>>
        log2 == Append(log1, invoked("cmake --build build", build))
    IN
    IF ~configure.spawned
    THEN compiled("Err", os_error("NotFound"), "dir", bin, log1)
    ELSE IF configure_failed(configure)
    THEN compiled("Err",
             io_error("Other", <<"CMake configuration failed:\n">> \o from_utf8_lossy(configure.stderr)),
             "dir", bin, log1)
    ELSE IF ~build.spawned
    THEN compiled("Err", os_error("NotFound"), "dir", bin, log2)
    ELSE IF build_failed(build)
    THEN compiled("Err",
             io_error("Other", <<"CMake build failed:\n">> \o from_utf8_lossy(build.stderr)),
             "dir", exe_after, log2)
    ELSE compiled("Ok", NoError, "dir", exe_after, log2)

Compile ==
    /\ invocations < MaxInvocations
    /\ \E configure \in ProcOutcomes, exe_after \in BOOLEAN :
       \E build \in OutcomesAfter(configure) :
         LET r == compile_project(buildDir, exe, configure, build, exe_after)
         IN  /\ command' = "compile"
             /\ result' = r.result
             /\ error' = r.error
             /\ buildDir' = r.buildDir
             /\ exe' = r.exe
             /\ procLog' = r.procLog
    /\ written' = {}
    /\ dependencies' = <<>>
    /\ cmakeBefore' = cmakeLists
    /\ invocations' = invocations + 1
    /\ UNCHANGED <<requirements, cmakeLists, conanfile, cwdName, windows>>

-----------------------------------------------------------------------------
(* run *)

\* Path::new("build").join(name).join(name or name.exe)
exe_path(name, win) ==
    IF win
    THEN <<"build", "\\">> \o name \o <<"\\">> \o name \o <<".exe">>
    ELSE <<"build", "/">> \o name \o <<"/">> \o name

\* char::escape_debug, for the characters a path of the model holds.
escape_debug(c) ==
    IF c = "\"" THEN <<"\\", "\"">>
    ELSE IF c = "\\" THEN <<"\\", "\\">>
    ELSE <<c>>

\* format!("{:?}", path)
path_debug(path) ==
    <<"\"">> \o Concat([i \in 1..Len(path) |-> escape_debug(path[i])]) \o <<"\"">>

\* exe_missing that skips the existence test.
exe_missing_never(exists) == FALSE

exe_missing(exists) == ~exists

run_project(dir, bin, name, win, configure, build, exe_after, program) ==
    LET c == compile_project(dir, bin, configure, build, exe_after)
        log == Append(c.procLog, invoked("exe_path", program))
    IN
    IF c.result # "Ok" THEN c
    ELSE IF name = NoName
    THEN compiled("Panic", NoError, c.buildDir, c.exe, c.procLog)
    ELSE IF exe_missing(c.exe)
    THEN compiled("Err",
             io_error("NotFound",
                      <<"Executable not found at: ">> \o path_debug(exe_path(name, win))),
             c.buildDir, c.exe, c.procLog)
    ELSE IF ~program.spawned
    THEN compiled("Err", os_error("NotFound"), c.buildDir, c.exe, log)
    ELSE IF ~program.success
    THEN compiled("Err", io_error("Other", <<"Project execution failed.">>),
                  c.buildDir, c.exe, log)
    ELSE compiled("Ok", NoError, c.buildDir, c.exe, log)

Run ==
    /\ invocations < MaxInvocations
    /\ \E configure \in ProcOutcomes, exe_after \in BOOLEAN :
       \E build \in OutcomesAfter(configure) :
       \E program \in OutcomesAfter(build) :
         LET r == run_project(buildDir, exe, cwdName, windows,
                              configure, build, exe_after, program)
         IN  /\ command' = "run"
             /\ result' = r.result
             /\ error' = r.error
             /\ buildDir' = r.buildDir
             /\ exe' = r.exe
             /\ procLog' = r.procLog
    /\ written' = {}
    /\ dependencies' = <<>>
    /\ cmakeBefore' = cmakeLists
    /\ invocations' = invocations + 1
    /\ UNCHANGED <<requirements, cmakeLists, conanfile, cwdName, windows>>

-----------------------------------------------------------------------------
(* Initial states and specifications *)

\* The files `new` writes: REQUIREMENTS_TXT_CONTENT (comment lines only)
\* and cmake_lists_sub (text, then the two marker lines).
requirements_stub == <<"\n", "#", "a", "\n">>
cmake_lists_sub == <<"x", start_marker, "\n", end_marker, "\n">>

ReqBytes == {"a", "#", " ", "\n", INVALID}
CMakeTokens == {"x", start_marker, end_marker}
NameChars == {"p", "\""}

Names == SeqsUpTo(NameChars, MaxNameLen) \ {<<>>}

\* Requirements files whose declarations reach the patch step: one
\* declaration, two declarations (CRLF line ends), a name holding a marker,
\* comments only, and a comment, an undecodable line, a blank line and a
\* declaration with spaces around it.
ReqSamples ==
    { <<"a", "/", "1">>,
      <<"a", "/", "1", "\r", "\n", " ", "b", "\n">>,
      <<"a", end_marker, "/", "1">>,
      <<"a", start_marker>>,
      <<"#", "a", "\n">>,
      <<"#", "a", "\n", INVALID, "\n", "\n", " ", "a", "/", "1", " ", "\n">> }

NothingRunYet ==
    /\ invocations = 0
    /\ command = "none"
    /\ result = "none"
    /\ error = NoError
    /\ procLog = <<>>
    /\ written = {}
    /\ dependencies = <<>>
    /\ cmakeBefore = cmakeLists

\* A project as `new` left it, in any state of its build directory.
Init ==
    /\ requirements = requirements_stub
    /\ cmakeLists = cmake_lists_sub
    /\ conanfile = NoFile
    /\ buildDir \in {"absent", "dir", "file"}
    /\ exe \in BOOLEAN
    /\ exe => buildDir = "dir"
    /\ cwdName \in Names \cup {NoName}
    /\ windows \in BOOLEAN
    /\ windows /\ cwdName # NoName => \A i \in 1..Len(cwdName) : cwdName[i] # "\""
    /\ NothingRunYet

\* A project whose requirements.txt or CMakeLists.txt the user has edited.
InitInstall ==
    /\ \/ /\ requirements \in SeqsUpTo(ReqBytes, MaxReqLen) \cup {NoFile}
          /\ cmakeLists = cmake_lists_sub
          /\ cwdName = <<"p">>
       \/ /\ requirements \in ReqSamples
          /\ cmakeLists \in SeqsUpTo(CMakeTokens, MaxCMakeLen) \cup {NoFile}
          /\ cwdName \in {<<"p">>, NoName}
    /\ conanfile = NoFile
    /\ buildDir = "absent"
    /\ exe = FALSE
    /\ windows = FALSE
    /\ NothingRunYet

Next == Install \/ Compile \/ Run

Spec == Init /\ [][Next]_vars

SpecInstall == InitInstall /\ [][Install]_vars

-----------------------------------------------------------------------------
(* What the claims speak of *)

conan_entry(status) ==
    \E i \in 1..Len(procLog) : procLog[i].prog = "conan" /\ procLog[i].status = status

ProcessInvoked(prog) == \E i \in 1..Len(procLog) : procLog[i].prog = prog

\* text occurs in msg as a contiguous piece.
Contains(msg, text) ==
    \E k \in 0..(Len(msg) - Len(text)) : SubSeq(msg, k + 1, k + Len(text)) = text

\* install got as far as the lines that patch CMakeLists.txt: conan
\* succeeded, the directory has a name and the file was read.
PatchStepReached ==
    /\ command = "install"
    /\ dependencies # <<>>
    /\ conan_entry("success")
    /\ cwdName # NoName
    /\ cmakeBefore # NoFile

Patched == command = "install" /\ result = "Ok" /\ "CMakeLists.txt" \in written

StartBefore == Find(cmakeBefore, start_marker)
EndBefore == Find(cmakeBefore, end_marker)

-----------------------------------------------------------------------------
\* C1: whenever install reached the package manager (the declaration list
\* is not empty), conanfile.txt does not exist when install has returned,
\* also when conan could not be launched.  The code returns at
\* `.output()?` before it removes the file.
C1_ManifestRemovedOnReturn ==
    command = "install" /\ dependencies # <<>> => conanfile = NoFile

-----------------------------------------------------------------------------
\* C2: when the configure step exits non-zero, the build step is not
\* invoked in that invocation, and the error returned holds the text of
\* the configure step's captured stderr.
C2_ConfigureFailureStopsBuild ==
    \A i \in 1..Len(procLog) :
        procLog[i].prog = "cmake -S . -B build" /\ procLog[i].status = "failure"
        => /\ ~ProcessInvoked("cmake --build build")
           /\ ~ProcessInvoked("exe_path")
           /\ result = "Err"
           /\ error.kind = "Other"
           /\ Head(error.msg) = "CMake configuration failed:\n"
           /\ Contains(error.msg, from_utf8_lossy(procLog[i].stderr))

\* Witness: compile stopped by a configure step whose stderr held an invalid byte.
C2_Witness ==
    /\ command = "compile"
    /\ procLog = <<[prog |-> "cmake -S . -B build", status |-> "failure",
                    stderr |-> <<INVALID, "e">>]>>
    /\ error.msg = <<"CMake configuration failed:\n", REPLACEMENT, "e">>

-----------------------------------------------------------------------------
\* C3: an install that patches CMakeLists.txt right after an install that
\* patched it (the declarations are the same: requirements.txt does not
\* change) leaves the file as the first one wrote it.
C3_PatchTwiceIsPatchOnce ==
    [][Patched /\ Patched' => cmakeLists' = cmakeLists]_vars

-----------------------------------------------------------------------------
\* C4: for a CMakeLists.txt that holds both markers, the text up to and
\* including the (first) start marker and the text from the (first) end
\* marker on are the same before and after install.
C4_OutsideMarkersUnchanged ==
    command = "install" /\ cmakeBefore # NoFile /\ StartBefore # 0 /\ EndBefore # 0
    => LET tail == Len(cmakeBefore) - EndBefore + 1
       IN  /\ cmakeLists # NoFile
           /\ Len(cmakeLists) >= StartBefore
           /\ SubSeq(cmakeLists, 1, StartBefore) = SubSeq(cmakeBefore, 1, StartBefore)
           /\ Len(cmakeLists) >= tail
           /\ SubSeq(cmakeLists, Len(cmakeLists) - tail + 1, Len(cmakeLists))
                = SubSeq(cmakeBefore, EndBefore, Len(cmakeBefore))

\* Witness: install replaced the section of a file with text before and after the markers.
C4_Witness ==
    /\ Patched
    /\ cmakeBefore = <<"x", start_marker, end_marker, "x">>
    /\ cmakeLists # cmakeBefore
    /\ Len(dependencies) = 2

-----------------------------------------------------------------------------
\* C5: when the patch step finds the start marker or the end marker
\* missing, install returns the markers-not-found error and CMakeLists.txt
\* is not written.
C5_MissingMarkerIsAnError ==
    PatchStepReached /\ (StartBefore = 0 \/ EndBefore = 0)
    => /\ result = "Err"
       /\ error = io_error("Other", <<"Could not find dependency markers in CMakeLists.txt">>)
       /\ cmakeLists = cmakeBefore
       /\ "CMakeLists.txt" \notin written

\* Witness: the patch step found the start marker but no end marker.
C5_Witness ==
    /\ PatchStepReached
    /\ StartBefore # 0
    /\ EndBefore = 0
    /\ result = "Err"

-----------------------------------------------------------------------------
\* C6: when both markers are present and the end marker comes before the
\* start marker, the patch step returns an error and CMakeLists.txt is not
\* modified.  The code panics in replace_range instead of returning.
C6_ReversedMarkersAreAnError ==
    PatchStepReached /\ StartBefore # 0 /\ EndBefore # 0 /\ EndBefore < StartBefore
    => result = "Err" /\ cmakeLists = cmakeBefore

-----------------------------------------------------------------------------
\* The binary path and its reading back from an error text.

\* The text a Debug-formatted string stands for: quotes off, escapes undone.
RECURSIVE Unescape(_)
Unescape(s) ==
    IF s = <<>> THEN <<>>
    ELSE IF Head(s) = "\\" /\ Len(s) >= 2
    THEN <<s[2]>> \o Unescape(SubSeq(s, 3, Len(s)))
    ELSE <<Head(s)>> \o Unescape(Tail(s))

Unquote(s) ==
    IF Len(s) >= 2 /\ Head(s) = "\"" /\ s[Len(s)] = "\""
    THEN Unescape(SubSeq(s, 2, Len(s) - 1))
    ELSE <<"not a quoted string">>

ExpectedBinaryPath ==
    LET sep == IF windows THEN "\\" ELSE "/"
        suffix == IF windows THEN <<".exe">> ELSE <<>>
    IN  <<"build", sep>> \o cwdName \o <<sep>> \o cwdName \o suffix

BuildPipelineSucceeded ==
    /\ Len(procLog) >= 2
    /\ procLog[1].prog = "cmake -S . -B build" /\ procLog[1].status = "success"
    /\ procLog[2].prog = "cmake --build build" /\ procLog[2].status = "success"

\* C7: when run's build pipeline succeeded and no file exists at
\* build/<project>/<project> (plus ".exe" on Windows), run returns a
\* NotFound error whose text names that path, and no program is launched.
C7_MissingBinaryIsNotFound ==
    command = "run" /\ BuildPipelineSucceeded /\ cwdName # NoName /\ ~exe
    => /\ result = "Err"
       /\ error.kind = "NotFound"
       /\ Head(error.msg) = "Executable not found at: "
       /\ Unquote(Tail(error.msg)) = ExpectedBinaryPath
       /\ ~ProcessInvoked("exe_path")

\* Witness: run in a directory named `"` found no binary after a successful build.
C7_Witness ==
    /\ command = "run"
    /\ BuildPipelineSucceeded
    /\ ~exe
    /\ cwdName = <<"\"">>
    /\ error.msg = <<"Executable not found at: ", "\"", "build", "/", "\\", "\"",
                     "/", "\\", "\"", "\"">>

-----------------------------------------------------------------------------
\* The declarations of a requirements file, read off its bytes.

\* Where the lines of a file start.
LineStarts(bytes) ==
    {p \in 1..Len(bytes) : p = 1 \/ bytes[p - 1] = "\n"}

\* The line that starts at p, without its line break.
LineAt(bytes, p) ==
    LET stops == {q \in p..Len(bytes) : bytes[q] = "\n"}
        stop == IF stops = {} THEN Len(bytes) + 1
                ELSE CHOOSE q \in stops : \A r \in stops : q <= r
    IN  SubSeq(bytes, p, stop - 1)

\* A line without the whitespace around it.
Stripped(line) ==
    LET solid == {i \in 1..Len(line) : line[i] \notin Whitespace}
    IN  IF solid = {} THEN <<>>
        ELSE SubSeq(line, CHOOSE i \in solid : \A j \in solid : i <= j,
                          CHOOSE i \in solid : \A j \in solid : i >= j)

ValidUtf8(line) == \A i \in 1..Len(line) : line[i] # INVALID

\* The starts of the lines that declare a dependency.
DeclarationStarts(bytes, lines_kept) ==
    {p \in lines_kept :
        LET t == Stripped(LineAt(bytes, p))
        IN  t # <<>> /\ Head(t) \notin {"#", start_marker, end_marker}}

\* The declarations of the lines starting in `starts`, in file order.
DeclarationsOf(bytes, starts) ==
    [k \in 1..Cardinality(starts) |->
        Stripped(LineAt(bytes,
            CHOOSE p \in starts : Cardinality({q \in starts : q < p}) = k - 1))]

\* C8, as stated: the declaration list is the file's lines, each trimmed,
\* without the lines that are then empty and the lines that then start
\* with '#', in file order.  A line that is not valid UTF-8 is skipped by
\* the code, so this fails.
C8_AllLinesParsed ==
    command = "install" /\ requirements # NoFile
    => dependencies
         = DeclarationsOf(requirements,
                          DeclarationStarts(requirements, LineStarts(requirements)))

\* C8, amended: the declaration list is the file's lines that are valid
\* UTF-8, each trimmed, without the lines that are then empty and the
\* lines that then start with '#', in file order.
C8_ValidLinesParsed ==
    command = "install" /\ requirements # NoFile
    => dependencies
         = DeclarationsOf(requirements,
              DeclarationStarts(requirements,
                  {p \in LineStarts(requirements) : ValidUtf8(LineAt(requirements, p))}))

\* Witness: install parsed a file with a comment, an undecodable line, a blank line and a padded declaration.
C8_Witness ==
    /\ command = "install"
    /\ requirements = <<"#", "a", "\n", INVALID, "\n", "\n", " ", "a", "/", "1", " ", "\n">>
    /\ dependencies = << <<"a", "/", "1">> >>

-----------------------------------------------------------------------------
\* C9: when the parsed declaration list is empty, install returns Ok and
\* has invoked no process, written no file and left conanfile.txt and
\* CMakeLists.txt absent or as they were.
C9_NoDependenciesNoWork ==
    command = "install" /\ requirements # NoFile /\ dependencies = <<>>
    => /\ result = "Ok"
       /\ procLog = <<>>
       /\ written = {}
       /\ cmakeLists = cmakeBefore

\* Witness: install of a requirements file that holds comments only.
C9_Witness ==
    /\ command = "install"
    /\ requirements = <<"#", "a", "\n">>
    /\ cmakeBefore = <<"x", start_marker, end_marker>>
    /\ result = "Ok"

-----------------------------------------------------------------------------
\* C10: when conan exits non-zero, install returns an error that holds the
\* text of conan's captured stderr, and CMakeLists.txt is neither written
\* nor changed.
C10_ConanFailureSkipsPatch ==
    \A i \in 1..Len(procLog) :
        procLog[i].prog = "conan" /\ procLog[i].status = "failure"
        => /\ result = "Err"
           /\ error.kind = "Other"
           /\ Head(error.msg) = "Conan install failed:\n"
           /\ Contains(error.msg, from_utf8_lossy(procLog[i].stderr))
           /\ cmakeLists = cmakeBefore
           /\ "CMakeLists.txt" \notin written

\* Witness: conan exited non-zero in a project whose CMakeLists.txt could have been patched.
C10_Witness ==
    /\ command = "install"
    /\ conan_entry("failure")
    /\ cmakeBefore = <<start_marker, "x", end_marker>>
    /\ error.msg = <<"Conan install failed:\n", REPLACEMENT, "e">>

====
